---- MODULE Spec2Model ----
(***************************************************************************)
(* A model of aghamon (main.go): a dashboard that, per browser request,    *)
(* queries the AdGuard Home API and renders the reply as HTML tables.      *)
(*                                                                         *)
(* Strings the code inspects character by character (the static file      *)
(* name) are sequences of one-character strings; strings it only copies    *)
(* are TLA+ strings.  HTML is kept as structure: a table is its header     *)
(* cells and the sequence of its body rows, a row the tuple of its cells.  *)
(***************************************************************************)
EXTENDS Integers, Sequences, FiniteSets, TLC

VARIABLES
  env,        \* the process environment: PORT and CONFIG_PATH
  fsys,       \* the files on disk, by path
  templateFS, \* the embedded templates/base.html: "ok", "missing", "invalid"
  assetFS,    \* the embedded assets: a function from file name to bytes
  pc,         \* where main() is
  exitCode,   \* the exit code of the process once it has exited
  config,     \* main's config
  templates,  \* the renderer's compiled template
  opened,     \* the path loadConfig opened
  listenAddr, \* the address e.Start was given
  reqs,       \* the requests: state, route and :file parameter of each
  frames,     \* the fetch result held in each handler invocation's locals
  calls,      \* the outbound appliance calls made for each request
  resps,      \* the response written for each request
  assetReads, \* the names looked up in assetFS so far
  arg,        \* the input of the function under test (SpecPure)
  out         \* the results of its calls so far (SpecPure)

vars == <<env, fsys, templateFS, assetFS, pc, exitCode, config, templates, opened,
          listenAddr, reqs, frames, calls, resps, assetReads, arg, out>>

serverVars == <<env, fsys, templateFS, pc, exitCode, config, templates, opened,
                listenAddr, reqs, frames, calls, resps>>

None == "none"

(***************************************************************************)
(* Bounds of the model.                                                    *)
(***************************************************************************)
MaxReqs == 2       \* requests handled in one run of the server
MaxNameLen == 2    \* length of the generated static file names
MaxClients == 2    \* length of each of clients and auto_clients
MaxItems == 2      \* length of a ranked list
NumCalls == 2      \* calls of the function under test on one input

(***************************************************************************)
(* strings.Contains and strings.HasSuffix, on sequences of characters.     *)
(***************************************************************************)
Contains(s, sub) ==
  \E i \in 0..(Len(s) - Len(sub)) : SubSeq(s, i + 1, i + Len(sub)) = sub

HasSuffix(s, suf) ==
  /\ Len(s) >= Len(suf)
  /\ SubSeq(s, Len(s) - Len(suf) + 1, Len(s)) = suf

RECURSIVE SeqsUpTo(_, _)
SeqsUpTo(S, n) ==
  IF n = 0 THEN {<<>>}
  ELSE LET shorter == SeqsUpTo(S, n - 1)
       IN  shorter \cup {Append(s, x) : s \in shorter, x \in S}

(***************************************************************************)
(* File names.                                                             *)
(***************************************************************************)
dotdot     == <<".", ".">>
index_html == <<"i", "n", "d", "e", "x", ".", "h", "t", "m", "l">>
logo_png   == <<"l", "o", "g", "o", "_", "s", "m", "a", "l", "l", ".", "p", "n", "g">>
a_jpg      == <<"a", ".", "j", "p", "g">>
a_jpeg     == <<"a", ".", "j", "p", "e", "g">>
a_css      == <<"a", ".", "c", "s", "s">>
a_js       == <<"a", ".", "j", "s">>
a_bin      == <<"a", ".", "b", "i", "n">>
a_dd_png   == <<"a", ".", ".", "p", "n", "g">>
js_bare    == <<"j", "s">>
x_png      == <<"x", ".", "p", "n", "g">>
up_logo    == <<".", ".", "/">> \o logo_png

NameChars == {".", "a"}

FileNames ==
  {<<>>, index_html, logo_png, a_jpg, a_jpeg, a_css, a_js, a_bin, a_dd_png,
   js_bare, x_png, up_logo} \cup SeqsUpTo(NameChars, MaxNameLen)

Bytes(name) == <<"bytes of", name>>

StoreOf(names) == [n \in names |-> Bytes(n)]

\* The assets directory the binary may have been built with: the README's
\* (logo_small.png alone), an empty one, and one with a file of every kind.
RichStore ==
  StoreOf({logo_png, index_html, a_jpg, a_jpeg, a_css, a_js, a_bin, a_dd_png,
           js_bare, <<"a">>, <<"a", ".", ".">>})

AssetStores == {StoreOf({}), StoreOf({logo_png}), RichStore}

(***************************************************************************)
(* Responses: c.String, c.Blob and c.Render.                               *)
(***************************************************************************)
StatusOK                  == 200
StatusForbidden           == 403
StatusNotFound            == 404
StatusInternalServerError == 500

String(code, text) == [status |-> code, ctype |-> "text/plain", body |-> text]

Blob(code, contentType, data) == [status |-> code, ctype |-> contentType, body |-> data]

Render(code, name, title, content) ==
  [status |-> code, ctype |-> "text/html",
   body |-> [template |-> name, Title |-> title, Content |-> content]]

(***************************************************************************)
(* serveStaticFile.  The result is the response and the sequence of names  *)
(* it looked up in the asset store.                                        *)
(***************************************************************************)
contentTypeOf_noJpeg(path) ==
  IF HasSuffix(path, <<".", "p", "n", "g">>) THEN "image/png"
  ELSE IF HasSuffix(path, <<".", "j", "p", "g">>) THEN "image/jpeg"
  ELSE IF HasSuffix(path, <<".", "c", "s", "s">>) THEN "text/css"
  ELSE IF HasSuffix(path, <<".", "j", "s">>) THEN "application/javascript"
  ELSE "application/octet-stream"

contentTypeOf(path) ==
  IF HasSuffix(path, <<".", "p", "n", "g">>) THEN "image/png"
  ELSE IF HasSuffix(path, <<".", "j", "p", "g">>)
          \/ HasSuffix(path, <<".", "j", "p", "e", "g">>) THEN "image/jpeg"
  ELSE IF HasSuffix(path, <<".", "c", "s", "s">>) THEN "text/css"
  ELSE IF HasSuffix(path, <<".", "j", "s">>) THEN "application/javascript"
  ELSE "application/octet-stream"

serveStaticFile_lookupFirst(file, store) ==
  LET path == IF file = <<>> THEN index_html ELSE file
  IN  IF path \notin DOMAIN store
        THEN [resp |-> String(StatusNotFound, "File not found"), reads |-> <<path>>]
      ELSE IF Contains(path, dotdot)
        THEN [resp |-> String(StatusForbidden, "Forbidden"), reads |-> <<path>>]
      ELSE [resp |-> Blob(StatusOK, contentTypeOf(path), store[path]),
            reads |-> <<path>>]

serveStaticFile(file, store) ==
  LET path == IF file = <<>> THEN index_html ELSE file
  IN  IF Contains(path, dotdot)
        THEN [resp |-> String(StatusForbidden, "Forbidden"), reads |-> <<>>]
      ELSE IF path \notin DOMAIN store
        THEN [resp |-> String(StatusNotFound, "File not found"), reads |-> <<path>>]
      ELSE [resp |-> Blob(StatusOK, contentTypeOf(path), store[path]),
            reads |-> <<path>>]

(***************************************************************************)
(* The appliance's data.                                                   *)
(***************************************************************************)
MkClient(ip, name, source, country, org, city) ==
  [IP |-> ip, Name |-> name, Source |-> source,
   WhoisInfo |-> [Country |-> country, OrgName |-> org, City |-> city]]

laptop == MkClient("10.0.0.5", "laptop", "rdns", "US", "ISP", "NYC")
phone  == MkClient("10.0.0.6", "", "arp", "", "", "")

Clients == {laptop, phone}

ClientsResponses ==
  [Clients : SeqsUpTo(Clients, MaxClients),
   AutoClients : SeqsUpTo(Clients, MaxClients),
   SupportedTags : {<<"device_laptop">>}]

Keys == {"a.com", "b.com"}

\* A ranked item is a Go map: a function from its keys.  It is meant to hold
\* one key; the decoder accepts any JSON object, the empty one included.
MapsTo(V) == UNION {[S -> V] : S \in SUBSET Keys}

IntMaps   == MapsTo({7, 42})

\* A float value is written as the text %.6f prints for it.
FloatMaps == MapsTo({"0.001500", "0.020000"})

\* Go leaves the iteration order of a map unspecified: `range item` visits
\* the keys of item in any order.
RangeOrders(item) ==
  LET S == DOMAIN item
  IN  {s \in [1..Cardinality(S) -> S] : \A k \in S : \E i \in DOMAIN s : s[i] = k}

KeyOrders == UNION {RangeOrders([k \in S |-> 0]) : S \in SUBSET Keys}

\* One iteration order for each item of data.
Orders(data) ==
  {o \in [1..Len(data) -> KeyOrders] : \A i \in 1..Len(data) : o[i] \in RangeOrders(data[i])}

(***************************************************************************)
(* The view renderer.                                                      *)
(***************************************************************************)
generateHTMLTable_dedup(clients) ==
  [head |-> <<"IP Address", "Name", "Source", "Country", "Organization", "City">>,
   rows |-> LET keep == SelectSeq([i \in 1..Len(clients) |-> i],
                                  LAMBDA i : \A j \in 1..(i - 1) : clients[j] # clients[i])
            IN  [n \in 1..Len(keep) |->
                   LET client == clients[keep[n]]
                   IN  <<client.IP, client.Name, client.Source, client.WhoisInfo.Country,
                         client.WhoisInfo.OrgName, client.WhoisInfo.City>>]]

generateHTMLTable(clients) ==
  [head |-> <<"IP Address", "Name", "Source", "Country", "Organization", "City">>,
   rows |-> [i \in 1..Len(clients) |->
               LET client == clients[i]
               IN  <<client.IP, client.Name, client.Source, client.WhoisInfo.Country,
                     client.WhoisInfo.OrgName, client.WhoisInfo.City>>]]

\* The rows the loop over data[i..] writes.  order[i] is the order in which
\* `range item` visits data[i]; the loop breaks after the first key.  The
\* code's i counts from 0 and prints i+1; here i counts from 1.
RECURSIVE statsRows(_, _, _)
statsRows(data, order, i) ==
  IF i > Len(data) THEN <<>>
  ELSE (IF order[i] = <<>> THEN <<>>
        ELSE LET key == order[i][1] IN << <<i, key, data[i][key]>> >>)
       \o statsRows(data, order, i + 1)

\* The loop without its break: a row for every key of the item.
RECURSIVE statsRows_noBreak(_, _, _)
statsRows_noBreak(data, order, i) ==
  IF i > Len(data) THEN <<>>
  ELSE [n \in 1..Len(order[i]) |-> <<i, order[i][n], data[i][order[i][n]]>>]
       \o statsRows_noBreak(data, order, i + 1)

\* The loop printing i where the code prints i+1.
RECURSIVE statsRows_zeroBased(_, _, _)
statsRows_zeroBased(data, order, i) ==
  IF i > Len(data) THEN <<>>
  ELSE (IF order[i] = <<>> THEN <<>>
        ELSE LET key == order[i][1] IN << <<i - 1, key, data[i][key]>> >>)
       \o statsRows_zeroBased(data, order, i + 1)

generateStatsTable_noBreak(title, data, valueLabel, order) ==
  [title |-> title, head |-> <<"#", "Name", valueLabel>>,
   rows |-> statsRows_noBreak(data, order, 1)]

generateStatsTable_zeroBased(title, data, valueLabel, order) ==
  [title |-> title, head |-> <<"#", "Name", valueLabel>>,
   rows |-> statsRows_zeroBased(data, order, 1)]

generateStatsTable(title, data, valueLabel, order) ==
  [title |-> title, head |-> <<"#", "Name", valueLabel>>,
   rows |-> statsRows(data, order, 1)]

\* The same loop over float values, which are printed with %.6f.
generateUpstreamsTable(title, data, valueLabel, order) ==
  [title |-> title, head |-> <<"#", "Upstream", valueLabel>>,
   rows |-> statsRows(data, order, 1)]

generateHomeContent == [h1 |-> "Welcome to Aghamon"]

generateClientsContent(totalClients, clientsTable) ==
  [h1 |-> "DNS Clients", total |-> totalClients, table |-> clientsTable]

generateStatsContent(timeUnits, numDNSQueries, numBlockedFiltering, avgProcessingTime, topDomainsTable, topClientsTable, topBlockedTable) ==
  [h1 |-> "DNS Statistics",
   summary |-> <<timeUnits, numDNSQueries, numBlockedFiltering, avgProcessingTime>>,
   tables |-> <<topDomainsTable, topClientsTable, topBlockedTable>>]

generateUpstreamsContent(topUpstreamsTable, topUpstreamsTimeTable) ==
  [h1 |-> "DNS Upstreams", tables |-> <<topUpstreamsTable, topUpstreamsTimeTable>>]

(***************************************************************************)
(* Configuration and startup.                                              *)
(***************************************************************************)
MkConfig(url, user, pass) ==
  [AdGuard |-> [ServerURL |-> url, Username |-> user, Password |-> pass]]

CfgDefault == MkConfig("https://dns.example.com", "a", "b")
CfgAlt     == MkConfig("https://alt.example.com", "c", "d")

DefaultPort == "8080"

Addr(port) == <<":", port>>

\* "./config.yaml" and "config.yaml" name the same file; both are written
\* "config.yaml" here.
DefaultConfigPath == "config.yaml"
AltConfigPath     == "alt.yaml"

\* A file on disk: absent, or present with text that is a Config or is not.
File(st, c) == [st |-> st, config |-> c]

NoFile      == File("missing", MkConfig("", "", ""))
InvalidFile == File("invalid", MkConfig("", "", ""))

\* The port and the config path the README documents for an environment.
DocumentedAddr(e) == IF e.PORT = None THEN Addr(DefaultPort) ELSE Addr(e.PORT)

DocumentedConfigPath(e) ==
  IF e.CONFIG_PATH = None THEN DefaultConfigPath ELSE e.CONFIG_PATH

\* loadConfig: os.Open, then the YAML decoder.
loadConfig_ignoreErrors(files) ==
  LET f == files["config.yaml"]
  IN  [path |-> "config.yaml", err |-> None, config |-> f.config]

loadConfig(files) ==
  LET f == files["config.yaml"]
  IN  IF f.st = "missing"
        THEN [path |-> "config.yaml", err |-> "open config.yaml: no such file or directory",
              config |-> f.config]
      ELSE IF f.st = "invalid"
        THEN [path |-> "config.yaml", err |-> "yaml: unmarshal errors", config |-> f.config]
      ELSE [path |-> "config.yaml", err |-> None, config |-> f.config]

\* The address main gives e.Start.
startAddr == Addr("8080")

(***************************************************************************)
(* The appliance client.                                                   *)
(***************************************************************************)
getBasicAuth(username, password) == <<"base64", username, ":", password>>

newRequest(cfg, endpoint) ==
  [method |-> "GET",
   url    |-> <<cfg.AdGuard.ServerURL, endpoint>>,
   header |-> [Authorization |-> <<"Basic ",
                                   getBasicAuth(cfg.AdGuard.Username, cfg.AdGuard.Password)>>,
               Accept        |-> "application/json",
               Referer       |-> <<cfg.AdGuard.ServerURL, "/">>]]

\* What client.Do and io.ReadAll hand back: a transport error, or a status
\* code and a body, which is JSON of the expected shape or is not.
TransportError(e) == [err |-> e, status |-> 0, body |-> None]
JSONReply(code, v) == [err |-> None, status |-> code, body |-> [json |-> TRUE, value |-> v]]
TextReply(code, t) == [err |-> None, status |-> code, body |-> [json |-> FALSE, text |-> t]]

Ok(v)   == [ok |-> TRUE, value |-> v, err |-> None]
Fail(e) == [ok |-> FALSE, value |-> None, err |-> e]

\* The decode step both fetch functions end with.
\* The decode step refusing any status but 200.
decode_checkStatus(reply) ==
  IF reply.err # None THEN Fail(reply.err)
  ELSE IF reply.status # 200 THEN Fail("unexpected status")
  ELSE IF ~reply.body.json
    THEN Fail("invalid character '<' looking for beginning of value")
  ELSE Ok(reply.body.value)

decode(reply) ==
  IF reply.err # None THEN Fail(reply.err)
  ELSE IF ~reply.body.json
    THEN Fail("invalid character '<' looking for beginning of value")
  ELSE Ok(reply.body.value)

fetchClients(cfg, reply) ==
  [request |-> newRequest(cfg, "/control/clients"), result |-> decode(reply)]

fetchStats_clientsURL(cfg, reply) ==
  [request |-> newRequest(cfg, "/control/clients"), result |-> decode(reply)]

fetchStats(cfg, reply) ==
  [request |-> newRequest(cfg, "/control/stats"), result |-> decode(reply)]

(***************************************************************************)
(* The route handlers, from the fetch result on.  o1, o2, o3 are the map   *)
(* iteration orders of the tables the handler renders.                     *)
(***************************************************************************)
homeHandler == Render(StatusOK, "base.html", "Aghamon", generateHomeContent)

clientsHandler_fallback(result) ==
  LET allClients == IF result.ok THEN result.value.Clients \o result.value.AutoClients
                    ELSE <<>>
  IN  Render(StatusOK, "base.html", "DNS Clients - Aghamon",
             generateClientsContent(Len(allClients), generateHTMLTable(allClients)))

clientsHandler(result) ==
  IF ~result.ok
    THEN String(StatusInternalServerError, <<"Error fetching clients: ", result.err>>)
  ELSE LET clientsResponse == result.value
           allClients == clientsResponse.Clients \o clientsResponse.AutoClients
           htmlTable  == generateHTMLTable(allClients)
       IN  Render(StatusOK, "base.html", "DNS Clients - Aghamon",
                  generateClientsContent(Len(allClients), htmlTable))

\* The handler showing an empty page where the fetch failed.
statsHandler_swallow(result, o1, o2, o3) ==
  LET statsResponse == IF result.ok THEN result.value
                       ELSE [TimeUnits |-> "", NumDNSQueries |-> 0,
                             NumBlockedFiltering |-> 0, AvgProcessingTime |-> "0.000000",
                             TopQueriedDomains |-> <<>>, TopClients |-> <<>>,
                             TopBlockedDomains |-> <<>>]
  IN  Render(StatusOK, "base.html", "DNS Statistics - Aghamon",
             generateStatsContent(statsResponse.TimeUnits, statsResponse.NumDNSQueries,
                                  statsResponse.NumBlockedFiltering,
                                  statsResponse.AvgProcessingTime,
                                  generateStatsTable("Top Queried Domains",
                                    statsResponse.TopQueriedDomains, "Count", o1),
                                  generateStatsTable("Top Clients",
                                    statsResponse.TopClients, "Count", o2),
                                  generateStatsTable("Top Blocked Domains",
                                    statsResponse.TopBlockedDomains, "Count", o3)))

statsHandler(result, o1, o2, o3) ==
  IF ~result.ok
    THEN String(StatusInternalServerError, <<"Error fetching stats: ", result.err>>)
  ELSE LET statsResponse == result.value
           topDomainsTable == generateStatsTable("Top Queried Domains",
                                statsResponse.TopQueriedDomains, "Count", o1)
           topClientsTable == generateStatsTable("Top Clients",
                                statsResponse.TopClients, "Count", o2)
           topBlockedTable == generateStatsTable("Top Blocked Domains",
                                statsResponse.TopBlockedDomains, "Count", o3)
       IN  Render(StatusOK, "base.html", "DNS Statistics - Aghamon",
                  generateStatsContent(statsResponse.TimeUnits, statsResponse.NumDNSQueries,
                                       statsResponse.NumBlockedFiltering,
                                       statsResponse.AvgProcessingTime,
                                       topDomainsTable, topClientsTable, topBlockedTable))

upstreamsHandler(result, o1, o2) ==
  IF ~result.ok
    THEN String(StatusInternalServerError, <<"Error fetching upstreams: ", result.err>>)
  ELSE LET statsResponse == result.value
           topUpstreamsTable == generateStatsTable("Top Upstreams by Response Count",
                                  statsResponse.TopUpstreamsResponses, "Count", o1)
           topUpstreamsTimeTable ==
             generateUpstreamsTable("Top Upstreams by Average Response Time",
                                    statsResponse.TopUpstreamsAvgTime, "Time", o2)
       IN  Render(StatusOK, "base.html", "DNS Upstreams - Aghamon",
                  generateUpstreamsContent(topUpstreamsTable, topUpstreamsTimeTable))

(***************************************************************************)
(* The server: main() up to e.Start, then the requests, each handled by    *)
(* its own invocation of a handler, concurrently with the others.          *)
(***************************************************************************)
Reqs == 1..MaxReqs

FetchRoutes  == {"/clients", "/stats", "/upstreams"}
StaticRoutes == {"/static/:file", "/static/"}
Routes       == {"/"} \cup FetchRoutes \cup StaticRoutes

\* The names requested of the running server.
ServedNames == {logo_png, a_dd_png, x_png}

ZeroClients == [Clients |-> <<>>, AutoClients |-> <<>>, SupportedTags |-> <<>>]
TwoClients  == [Clients |-> <<laptop>>, AutoClients |-> <<phone>>,
                SupportedTags |-> <<"device_laptop">>]

MkStats(queried, clients, blocked, responses, avgTime, n) ==
  [TimeUnits |-> "hours", TopQueriedDomains |-> queried, TopClients |-> clients,
   TopBlockedDomains |-> blocked, TopUpstreamsResponses |-> responses,
   TopUpstreamsAvgTime |-> avgTime, DNSQueries |-> <<n>>, BlockedFiltering |-> <<0>>,
   NumDNSQueries |-> n, NumBlockedFiltering |-> 0, AvgProcessingTime |-> "0.001500"]

one(k, v) == [x \in {k} |-> v]

ZeroStats  == [MkStats(<<>>, <<>>, <<>>, <<>>, <<>>, 0) EXCEPT !.TimeUnits = ""]
PlainStats == MkStats(<<one("a.com", 42)>>, <<one("b.com", 7)>>, <<>>,
                      <<one("a.com", 7)>>, <<one("a.com", "0.020000")>>, 42)
OddStats   == MkStats(<<[k \in Keys |-> 7]>>, <<>>, <<[k \in {} |-> 7], one("b.com", 7)>>,
                      <<>>, <<[k \in Keys |-> "0.001500"]>>, 7)

\* What the appliance may answer a call with.
Replies(route) ==
  {TransportError("connection refused"), TextReply(200, "<html>")}
  \cup (IF route = "/clients"
          THEN {JSONReply(200, TwoClients), JSONReply(403, ZeroClients)}
          ELSE {JSONReply(200, PlainStats), JSONReply(200, OddStats),
                JSONReply(403, ZeroStats)})

\* The storage of a handler invocation's local variables (clientsResponse,
\* statsResponse, err, allClients): they are declared inside the handler
\* closures, so each invocation has its own.
frameOf_shared(r) == 1

frameOf(r) == r

fetch(route, cfg, reply) ==
  IF route = "/clients" THEN fetchClients(cfg, reply) ELSE fetchStats(cfg, reply)

OrdersOf(result, field) == IF result.ok THEN Orders(result.value[field]) ELSE {<<>>}

\* The responses a handler may write, given what its fetch returned.
HandlerResponses(route, result) ==
  IF route = "/clients" THEN {clientsHandler(result)}
  ELSE IF route = "/stats"
    THEN {statsHandler(result, o1, o2, o3) :
            o1 \in OrdersOf(result, "TopQueriedDomains"),
            o2 \in OrdersOf(result, "TopClients"),
            o3 \in OrdersOf(result, "TopBlockedDomains")}
  ELSE {upstreamsHandler(result, o1, o2) :
          o1 \in OrdersOf(result, "TopUpstreamsResponses"),
          o2 \in OrdersOf(result, "TopUpstreamsAvgTime")}

Range(s) == {s[i] : i \in DOMAIN s}

Idle == [st |-> "idle", route |-> None, file |-> <<>>, after |-> {}]

Done(r) == reqs[r].st = "done"

Init ==
  /\ env \in [PORT : {None, "9090"}, CONFIG_PATH : {None, AltConfigPath}]
  /\ fsys \in {[p \in {DefaultConfigPath, AltConfigPath} |->
                  IF p = DefaultConfigPath THEN f ELSE File("ok", CfgAlt)] :
               f \in {NoFile, InvalidFile, File("ok", CfgDefault)}}
  /\ templateFS \in {"ok", "missing", "invalid"}
  /\ assetFS = RichStore
  /\ pc = "main"
  /\ exitCode = None
  /\ config = MkConfig("", "", "")
  /\ templates = None
  /\ opened = None
  /\ listenAddr = <<>>
  /\ reqs = [r \in Reqs |-> Idle]
  /\ frames = [r \in Reqs |-> <<>>]
  /\ calls = [r \in Reqs |-> <<>>]
  /\ resps = [r \in Reqs |-> None]
  /\ assetReads = {}
  /\ arg = None
  /\ out = <<>>

Fatal(code) ==
  /\ pc' = "exited"
  /\ exitCode' = code

\* main: config, err := loadConfig(); Logger.Fatal on error.
LoadConfig ==
  /\ pc = "main"
  /\ LET l == loadConfig(fsys)
     IN  /\ opened' = l.path
         /\ IF l.err # None
              THEN Fatal(1) /\ UNCHANGED config
              ELSE /\ config' = l.config
                   /\ pc' = "config_loaded"
                   /\ UNCHANGED exitCode
  /\ UNCHANGED <<env, fsys, templateFS, assetFS, templates, listenAddr, reqs, frames,
                 calls, resps, assetReads, arg, out>>

\* main: templateFS.ReadFile("templates/base.html"); Logger.Fatal on error.
ReadTemplate ==
  /\ pc = "config_loaded"
  /\ IF templateFS = "missing"
       THEN Fatal(1)
       ELSE pc' = "template_read" /\ UNCHANGED exitCode
  /\ UNCHANGED <<env, fsys, templateFS, assetFS, config, templates, opened, listenAddr,
                 reqs, frames, calls, resps, assetReads, arg, out>>

\* main: template.Must(...Parse(...)) panics on a parse error; then the
\* renderer and the routes are set.
ParseTemplate ==
  /\ pc = "template_read"
  /\ IF templateFS = "invalid"
       THEN Fatal(2) /\ UNCHANGED templates
       ELSE /\ templates' = "base.html"
            /\ pc' = "routes"
            /\ UNCHANGED exitCode
  /\ UNCHANGED <<env, fsys, templateFS, assetFS, config, opened, listenAddr, reqs,
                 frames, calls, resps, assetReads, arg, out>>

\* main: e.Logger.Fatal(e.Start(":8080")).  Start returns at once when the
\* address cannot be bound.
Start ==
  /\ pc = "routes"
  /\ listenAddr' = startAddr
  /\ \E bound \in BOOLEAN :
       IF bound THEN pc' = "listening" /\ UNCHANGED exitCode ELSE Fatal(1)
  /\ UNCHANGED <<env, fsys, templateFS, assetFS, config, templates, opened, reqs,
                 frames, calls, resps, assetReads, arg, out>>

\* A request arrives and the router picks its handler.
Arrive(r) ==
  /\ pc = "listening"
  /\ reqs[r].st = "idle"
  /\ \A q \in 1..(r - 1) : reqs[q].st # "idle"
  /\ \E route \in Routes :
       \E file \in (IF route = "/static/:file" THEN ServedNames ELSE {<<>>}) :
         reqs' = [reqs EXCEPT ![r] = [st |-> "received", route |-> route, file |-> file,
                                      after |-> {q \in Reqs : Done(q)}]]
  /\ UNCHANGED <<env, fsys, templateFS, assetFS, pc, exitCode, config, templates, opened,
                 listenAddr, frames, calls, resps, assetReads, arg, out>>

Finish(r, resp) ==
  /\ resps' = [resps EXCEPT ![r] = resp]
  /\ reqs' = [reqs EXCEPT ![r].st = "done"]

\* GET /
Home(r) ==
  /\ pc = "listening"
  /\ reqs[r].st = "received"
  /\ reqs[r].route = "/"
  /\ Finish(r, homeHandler)
  /\ UNCHANGED <<env, fsys, templateFS, assetFS, pc, exitCode, config, templates, opened,
                 listenAddr, frames, calls, assetReads, arg, out>>

\* GET /static/:file and GET /static/
Static(r) ==
  /\ pc = "listening"
  /\ reqs[r].st = "received"
  /\ reqs[r].route \in StaticRoutes
  /\ LET s == serveStaticFile(reqs[r].file, assetFS)
     IN  /\ Finish(r, s.resp)
         /\ assetReads' = assetReads \cup Range(s.reads)
  /\ UNCHANGED <<env, fsys, templateFS, assetFS, pc, exitCode, config, templates, opened,
                 listenAddr, frames, calls, arg, out>>

\* GET /clients, /stats, /upstreams: the handler calls the appliance and
\* blocks until the round trip ends.
Fetch(r) ==
  /\ pc = "listening"
  /\ reqs[r].st = "received"
  /\ reqs[r].route \in FetchRoutes
  /\ \E reply \in Replies(reqs[r].route) :
       LET f == fetch(reqs[r].route, config, reply)
       IN  /\ calls' = [calls EXCEPT ![r] = Append(@, [request |-> f.request,
                                                         reply |-> reply])]
           /\ frames' = [frames EXCEPT ![frameOf(r)] = <<f.result>>]
  /\ reqs' = [reqs EXCEPT ![r].st = "fetched"]
  /\ UNCHANGED <<env, fsys, templateFS, assetFS, pc, exitCode, config, templates, opened,
                 listenAddr, resps, assetReads, arg, out>>

\* The rest of the handler: the 500, or the page rendered from the result.
Respond(r) ==
  /\ pc = "listening"
  /\ reqs[r].st = "fetched"
  /\ frames[frameOf(r)] # <<>>
  /\ \E resp \in HandlerResponses(reqs[r].route, frames[frameOf(r)][1]) : Finish(r, resp)
  /\ frames' = [frames EXCEPT ![frameOf(r)] = <<>>]
  /\ UNCHANGED <<env, fsys, templateFS, assetFS, pc, exitCode, config, templates, opened,
                 listenAddr, calls, assetReads, arg, out>>

Next ==
  \/ LoadConfig
  \/ ReadTemplate
  \/ ParseTemplate
  \/ Start
  \/ \E r \in Reqs : Arrive(r)
  \/ \E r \in Reqs : Home(r)
  \/ \E r \in Reqs : Static(r)
  \/ \E r \in Reqs : Fetch(r)
  \/ \E r \in Reqs : Respond(r)

Spec == Init /\ [][Next]_vars

(***************************************************************************)
(* The functions on their own: an input is drawn, and the function is      *)
(* called on it NumCalls times.                                            *)
(***************************************************************************)
PureInputs ==
  [fn : {"serveStaticFile"}, file : FileNames]
  \cup [fn : {"clientsHandler"}, value : ClientsResponses]
  \cup [fn : {"generateStatsTable"}, data : SeqsUpTo(IntMaps, MaxItems)]
  \cup [fn : {"generateUpstreamsTable"}, data : SeqsUpTo(FloatMaps, MaxItems)]

InitPure ==
  /\ arg \in PureInputs
  /\ assetFS \in (IF arg.fn = "serveStaticFile" THEN AssetStores ELSE {StoreOf({logo_png})})
  /\ out = <<>>
  /\ assetReads = {}
  /\ env = [PORT |-> None, CONFIG_PATH |-> None]
  /\ fsys = [p \in {DefaultConfigPath, AltConfigPath} |->
               File("ok", IF p = DefaultConfigPath THEN CfgDefault ELSE CfgAlt)]
  /\ templateFS = "ok"
  /\ pc = "main"
  /\ exitCode = None
  /\ config = MkConfig("", "", "")
  /\ templates = None
  /\ opened = None
  /\ listenAddr = <<>>
  /\ reqs = [r \in Reqs |-> Idle]
  /\ frames = [r \in Reqs |-> <<>>]
  /\ calls = [r \in Reqs |-> <<>>]
  /\ resps = [r \in Reqs |-> None]

CallServeStaticFile ==
  /\ arg.fn = "serveStaticFile"
  /\ Len(out) < NumCalls
  /\ LET s == serveStaticFile(arg.file, assetFS)
     IN  /\ out' = Append(out, s.resp)
         /\ assetReads' = assetReads \cup Range(s.reads)
  /\ UNCHANGED <<serverVars, assetFS, arg>>

CallClientsHandler ==
  /\ arg.fn = "clientsHandler"
  /\ Len(out) < NumCalls
  /\ out' = Append(out, clientsHandler(Ok(arg.value)))
  /\ UNCHANGED <<serverVars, assetFS, assetReads, arg>>

CallGenerateStatsTable ==
  /\ arg.fn = "generateStatsTable"
  /\ Len(out) < NumCalls
  /\ \E order \in Orders(arg.data) :
       out' = Append(out, generateStatsTable("Top Clients", arg.data, "Count", order))
  /\ UNCHANGED <<serverVars, assetFS, assetReads, arg>>

CallGenerateUpstreamsTable ==
  /\ arg.fn = "generateUpstreamsTable"
  /\ Len(out) < NumCalls
  /\ \E order \in Orders(arg.data) :
       out' = Append(out, generateUpstreamsTable("Top Upstreams by Average Response Time",
                                                 arg.data, "Time", order))
  /\ UNCHANGED <<serverVars, assetFS, assetReads, arg>>

NextPure ==
  \/ CallServeStaticFile
  \/ CallClientsHandler
  \/ CallGenerateStatsTable
  \/ CallGenerateUpstreamsTable

SpecPure == InitPure /\ [][NextPure]_vars

(***************************************************************************)
(* Properties of the static asset server (SpecPure).                       *)
(***************************************************************************)
IsStaticCall == arg.fn = "serveStaticFile"

\* C1: a static asset request whose file name contains ".." is answered
\* 403 whether or not the asset store holds that name, and no name
\* containing ".." is ever looked up in the asset store.
C1_DotDotForbidden ==
  /\ (IsStaticCall /\ Contains(arg.file, dotdot))
       => \A i \in DOMAIN out : out[i].status = 403 /\ out[i].body = "Forbidden"
  /\ \A n \in assetReads : ~Contains(n, dotdot)

\* A name with ".." that the store holds has been requested.
C1_Witness ==
  /\ IsStaticCall
  /\ Contains(arg.file, dotdot)
  /\ arg.file \in DOMAIN assetFS
  /\ out # <<>>
  /\ out[1].status = 403

IsPng(p)  == HasSuffix(p, <<".", "p", "n", "g">>)
IsJpeg(p) == HasSuffix(p, <<".", "j", "p", "g">>) \/ HasSuffix(p, <<".", "j", "p", "e", "g">>)
IsCss(p)  == HasSuffix(p, <<".", "c", "s", "s">>)
IsJs(p)   == HasSuffix(p, <<".", "j", "s">>)

\* C7: a static asset request whose name has no ".." is answered 404 when
\* the store has no asset of that name (index.html for the empty name), and
\* otherwise 200 with the asset's bytes and the content type of its
\* extension: .png image/png, .jpg/.jpeg image/jpeg, .css text/css,
\* .js application/javascript, anything else application/octet-stream.
C7_StaticOutcome ==
  (IsStaticCall /\ ~Contains(arg.file, dotdot)) =>
    LET name == IF arg.file = <<>> THEN index_html ELSE arg.file
    IN  \A i \in DOMAIN out :
          IF name \notin DOMAIN assetFS
            THEN out[i].status = 404
            ELSE /\ out[i].status = 200
                 /\ out[i].body = assetFS[name]
                 /\ IsPng(name)  => out[i].ctype = "image/png"
                 /\ IsJpeg(name) => out[i].ctype = "image/jpeg"
                 /\ IsCss(name)  => out[i].ctype = "text/css"
                 /\ IsJs(name)   => out[i].ctype = "application/javascript"
                 /\ ~(IsPng(name) \/ IsJpeg(name) \/ IsCss(name) \/ IsJs(name))
                      => out[i].ctype = "application/octet-stream"
                 /\ name = logo_png => out[i].ctype = "image/png"

\* logo_small.png has been served from a store that holds it.
C7_Witness ==
  /\ IsStaticCall
  /\ arg.file = logo_png
  /\ logo_png \in DOMAIN assetFS
  /\ out # <<>>
  /\ out[1].status = 200
  /\ out[1].ctype = "image/png"

(***************************************************************************)
(* Properties of the view renderer (SpecPure).                             *)
(***************************************************************************)
RowOf(c) ==
  <<c.IP, c.Name, c.Source, c.WhoisInfo.Country, c.WhoisInfo.OrgName, c.WhoisInfo.City>>

\* C3: for an appliance response with clients C and auto_clients A the
\* /clients table has len(C)+len(A) body rows, the rows of C in order and
\* then the rows of A in order, none dropped, reordered or deduplicated;
\* for empty C and A it has the header row and no body row.
C3_ClientsRows ==
  arg.fn = "clientsHandler" =>
    \A i \in DOMAIN out :
      LET C     == arg.value.Clients
          A     == arg.value.AutoClients
          table == out[i].body.Content.table
      IN  /\ out[i].status = 200
          /\ Len(table.head) = 6
          /\ Len(table.rows) = Len(C) + Len(A)
          /\ \A j \in 1..Len(C) : table.rows[j] = RowOf(C[j])
          /\ \A j \in 1..Len(A) : table.rows[Len(C) + j] = RowOf(A[j])
          /\ out[i].body.Content.total = Len(C) + Len(A)
          /\ (C = <<>> /\ A = <<>>) => table.rows = <<>>

\* The same client is in clients and in auto_clients, and the page shows
\* it twice.
C3_Witness ==
  /\ arg.fn = "clientsHandler"
  /\ arg.value.Clients = <<laptop, phone>>
  /\ arg.value.AutoClients = <<laptop>>
  /\ out # <<>>
  /\ Len(out[1].body.Content.table.rows) = 3

IsRankedCall == arg.fn \in {"generateStatsTable", "generateUpstreamsTable"}

\* The positions of the items of data that hold at least one key.
KeyedPositions(data) ==
  SelectSeq([i \in 1..Len(data) |-> i], LAMBDA i : DOMAIN data[i] # {})

\* C4 as claimed: generateStatsTable emits one row per item, indexed
\* 1, 2, ..., N, whatever the items' keys, empty maps included.
C4_OneRowPerItem ==
  arg.fn = "generateStatsTable" =>
    \A i \in DOMAIN out :
      /\ Len(out[i].rows) = Len(arg.data)
      /\ \A j \in DOMAIN out[i].rows : out[i].rows[j][1] = j

\* C4 as amended: generateStatsTable emits one row per item that holds at
\* least one key, in input order, and a row's index is the 1-based position
\* of its item; so when every item holds a key the indices are 1, 2, ..., N
\* whatever the keys, and an empty map yields no row and leaves a gap.
C4_RowPerKeyedItem ==
  arg.fn = "generateStatsTable" =>
    \A i \in DOMAIN out :
      LET rows == out[i].rows
          pos  == KeyedPositions(arg.data)
      IN  /\ Len(rows) = Len(pos)
          /\ \A j \in DOMAIN rows : rows[j][1] = pos[j]
          /\ (\A p \in DOMAIN arg.data : DOMAIN arg.data[p] # {})
               => /\ Len(rows) = Len(arg.data)
                  /\ \A j \in DOMAIN rows : rows[j][1] = j

\* A list of two items with different keys has been rendered as rows 1, 2.
C4_Witness ==
  /\ arg.fn = "generateStatsTable"
  /\ Len(arg.data) = 2
  /\ DOMAIN arg.data[1] = {"b.com"}
  /\ DOMAIN arg.data[2] = {"a.com"}
  /\ out # <<>>
  /\ out[1].rows[1][1] = 1
  /\ out[1].rows[2][1] = 2

SingleKeyed(data) == \A p \in DOMAIN data : Cardinality(DOMAIN data[p]) <= 1

\* C5 as claimed: two renderings of the same ranked list are the same,
\* also when an item holds more than one key.
C5_Deterministic ==
  IsRankedCall => \A i, j \in DOMAIN out : out[i] = out[j]

\* C5 as amended: two renderings of the same ranked list are the same when
\* no item holds more than one key; an item that holds more than one key is
\* rendered as exactly one row, for one of its entries, the others ignored,
\* but which entry is left to the map's iteration order, so that two
\* renderings of such a list may differ.
C5_OneEntryPerItem ==
  IsRankedCall =>
    /\ SingleKeyed(arg.data) => \A i, j \in DOMAIN out : out[i] = out[j]
    /\ \A i \in DOMAIN out :
         \A p \in DOMAIN arg.data :
           LET mine == {j \in DOMAIN out[i].rows : out[i].rows[j][1] = p}
           IN  /\ Cardinality(mine) = (IF DOMAIN arg.data[p] = {} THEN 0 ELSE 1)
               /\ \A j \in mine :
                    /\ out[i].rows[j][2] \in DOMAIN arg.data[p]
                    /\ out[i].rows[j][3] = arg.data[p][out[i].rows[j][2]]

\* An item with two keys has been rendered twice, one row each time.
C5_Witness ==
  /\ IsRankedCall
  /\ Len(arg.data) = 1
  /\ Cardinality(DOMAIN arg.data[1]) = 2
  /\ Len(out) >= 2
  /\ Len(out[1].rows) = 1
  /\ Len(out[2].rows) = 1

(***************************************************************************)
(* Properties of the server (Spec).                                        *)
(***************************************************************************)
\* The one appliance call made for request r, once it has been made.
CallOf(r) == calls[r][1]

\* The call for r failed: the transport gave an error, or the body did not
\* decode.
FetchFailed(r) ==
  LET reply == CallOf(r).reply
  IN  IF reply.err # None THEN TRUE ELSE ~reply.body.json

Cause(r) ==
  LET reply == CallOf(r).reply
  IN  IF reply.err # None THEN reply.err
      ELSE "invalid character '<' looking for beginning of value"

Fetched(r) == reqs[r].route \in FetchRoutes /\ reqs[r].st \in {"fetched", "done"}

\* C2: when the appliance fetch of a GET /clients, /stats or /upstreams
\* request fails, the request is answered 500 with the error text in the
\* body and no page content, the process keeps running, and a request that
\* arrives later is answered as usual.
C2_FetchErrorIs500 ==
  \A r \in Reqs :
    (Done(r) /\ Fetched(r) /\ FetchFailed(r)) =>
      /\ resps[r].status = 500
      /\ resps[r].ctype = "text/plain"
      /\ resps[r].body[2] = Cause(r)
      /\ pc = "listening"
      /\ \A q \in Reqs :
           (Done(q) /\ r \in reqs[q].after) =>
             resps[q].status =
               (IF reqs[q].route \in FetchRoutes
                  THEN (IF FetchFailed(q) THEN 500 ELSE 200)
                ELSE IF reqs[q].route = "/" THEN 200
                ELSE serveStaticFile(reqs[q].file, assetFS).resp.status)

\* GET /clients got a 500 for a refused connection, and a GET /clients that
\* arrived after it got its page.
C2_Witness ==
  \E r, q \in Reqs :
    /\ Done(r) /\ reqs[r].route = "/clients"
    /\ CallOf(r).reply.err = "connection refused"
    /\ resps[r].status = 500
    /\ Done(q) /\ r \in reqs[q].after /\ reqs[q].route = "/clients"
    /\ resps[q].status = 200

\* C6 as claimed: the listener port is PORT when it is set and 8080
\* otherwise, and the config file loaded is the one CONFIG_PATH names when
\* it is set and ./config.yaml otherwise.
C6_EnvironmentHonoured ==
  /\ pc = "listening" => listenAddr = DocumentedAddr(env)
  /\ pc # "main" => opened = DocumentedConfigPath(env)

StartupFailed == fsys[DefaultConfigPath].st # "ok" \/ templateFS # "ok"

\* C8: when the config file cannot be loaded (missing or unparsable) or the
\* template cannot be read or parsed, the listener is never started and no
\* request is ever received or answered; startup can only go on to the
\* exit, and the exit code is not zero.
C8_StartupAllOrNothing ==
  StartupFailed =>
    /\ pc \in {"main", "config_loaded", "template_read", "exited"}
    /\ listenAddr = <<>>
    /\ \A r \in Reqs : reqs[r].st = "idle" /\ calls[r] = <<>>
    /\ pc = "exited" => exitCode # 0
    /\ pc # "exited" => ENABLED (LoadConfig \/ ReadTemplate \/ ParseTemplate)
    /\ fsys[DefaultConfigPath].st # "ok" => pc \in {"main", "exited"}

\* The process has exited on a template that does not parse.
C8_Witness ==
  /\ pc = "exited"
  /\ templateFS = "invalid"
  /\ exitCode = 2

EndpointOf(route) == IF route = "/clients" THEN "/control/clients" ELSE "/control/stats"

\* The entries of the ranked list data that the rows show.
RowsFrom(rows, data) ==
  /\ Len(rows) = Len(KeyedPositions(data))
  /\ \A j \in DOMAIN rows :
       /\ rows[j][1] \in DOMAIN data
       /\ rows[j][2] \in DOMAIN data[rows[j][1]]
       /\ rows[j][3] = data[rows[j][1]][rows[j][2]]

\* The page resp shows the data v of a decoded reply.
Shows(route, resp, v) ==
  LET content == resp.body.Content
  IN  IF route = "/clients"
        THEN /\ content.total = Len(v.Clients) + Len(v.AutoClients)
             /\ content.table.rows =
                  [j \in 1..(Len(v.Clients) + Len(v.AutoClients)) |->
                     RowOf((v.Clients \o v.AutoClients)[j])]
      ELSE IF route = "/stats"
        THEN /\ content.summary = <<v.TimeUnits, v.NumDNSQueries, v.NumBlockedFiltering,
                                    v.AvgProcessingTime>>
             /\ RowsFrom(content.tables[1].rows, v.TopQueriedDomains)
             /\ RowsFrom(content.tables[2].rows, v.TopClients)
             /\ RowsFrom(content.tables[3].rows, v.TopBlockedDomains)
      ELSE /\ RowsFrom(content.tables[1].rows, v.TopUpstreamsResponses)
           /\ RowsFrom(content.tables[2].rows, v.TopUpstreamsAvgTime)

OwnResponses(r) ==
  IF reqs[r].route = "/" THEN {homeHandler}
  ELSE IF reqs[r].route \in StaticRoutes
    THEN {serveStaticFile(reqs[r].file, assetFS).resp}
  ELSE HandlerResponses(reqs[r].route, decode(CallOf(r).reply))

C10_Step ==
  /\ pc = "listening" => (config' = config /\ templates' = templates)
  /\ \A r \in Reqs :
       /\ (~Done(r) /\ Done(r)') => resps'[r] \in OwnResponses(r)'
       /\ Done(r) => (Done(r)' /\ resps'[r] = resps[r])
       /\ (Fetched(r) /\ Fetched(r)') => calls'[r] = calls[r]
       /\ (~Fetched(r) /\ Fetched(r)')
            => CallOf(r)'.request = newRequest(config, EndpointOf(reqs[r].route))

\* C10: whatever the interleaving of the requests in flight, the Config and
\* the compiled template are not written once the server listens, and the
\* response of a request is one its route gives for its own appliance
\* response and the Config, whatever the other requests do.
C10_RequestsIsolated == [][C10_Step]_vars

\* Two GET /clients requests were in flight together (the second arrived
\* before the first was answered), got different replies, and each was
\* answered from its own.
C10_Witness ==
  /\ Done(1) /\ Done(2)
  /\ reqs[1].route = "/clients" /\ reqs[2].route = "/clients"
  /\ reqs[2].after = {}
  /\ FetchFailed(2) /\ ~FetchFailed(1)
  /\ resps[2].status = 500 /\ resps[1].status = 200


\* The failure of request r, if it has one: the kind of error its handler
\* met.
FailureOf(r) ==
  IF reqs[r].route \in FetchRoutes
    THEN (IF FetchFailed(r) THEN "fetch" ELSE "none")
  ELSE IF reqs[r].route \in StaticRoutes
    THEN LET name == IF reqs[r].file = <<>> THEN index_html ELSE reqs[r].file
         IN  IF Contains(name, dotdot) THEN "forbidden"
             ELSE IF name \notin DOMAIN assetFS THEN "missing"
             ELSE "none"
  ELSE "none"

ErrorPrefixes ==
  {"Error fetching clients: ", "Error fetching stats: ", "Error fetching upstreams: "}

\* C11: no error is swallowed.  A failure at startup (config load, template
\* read or parse, listener start) ends in a process exit with a non-zero
\* code, and startup never goes past a failed step; a failure at runtime is
\* answered with its own non-200 status and a message (500 and the error
\* text for a fetch error, 403 for a forbidden asset path, 404 for a missing
\* asset); a 200 is only ever the answer of a request that met no failure.
C11_NoErrorSwallowed ==
  /\ pc = "exited" => exitCode \in {1, 2}
  /\ pc \in {"config_loaded", "template_read", "routes", "listening"}
       => fsys[DefaultConfigPath].st = "ok"
  /\ pc = "template_read" => templateFS # "missing"
  /\ pc \in {"routes", "listening"} => (templateFS = "ok" /\ templates = "base.html")
  /\ \A r \in Reqs :
       Done(r) =>
         /\ FailureOf(r) = "fetch" =>
              /\ resps[r].status = 500
              /\ resps[r].body[1] \in ErrorPrefixes
              /\ resps[r].body[2] = Cause(r)
         /\ FailureOf(r) = "forbidden" =>
              (resps[r].status = 403 /\ resps[r].body = "Forbidden")
         /\ FailureOf(r) = "missing" =>
              (resps[r].status = 404 /\ resps[r].body = "File not found")
         /\ (resps[r].status = 200) <=> (FailureOf(r) = "none")

\* One request met an undecodable stats reply and got a 500, another asked
\* for an asset that does not exist and got a 404.
C11_Witness ==
  \E r, q \in Reqs :
    /\ Done(r) /\ reqs[r].route = "/stats"
    /\ CallOf(r).reply = TextReply(200, "<html>")
    /\ resps[r].status = 500
    /\ Done(q) /\ reqs[q].route = "/static/:file" /\ reqs[q].file = x_png
    /\ resps[q].status = 404


\* C12: the fetch functions never look at the appliance's status code: a
\* fetch succeeds exactly when the transport call succeeded and the body
\* decodes, so a reply with a non-200 status and a decodable body is
\* rendered as a page with HTTP 200, and a reply with status 200 and an
\* undecodable body is a fetch error answered with HTTP 500.
C12_StatusCodeIgnored ==
  \A r \in Reqs :
    Fetched(r) =>
      LET reply   == CallOf(r).reply
          decodes == IF reply.err # None THEN FALSE ELSE reply.body.json
      IN  /\ reqs[r].st = "fetched" => frames[frameOf(r)][1].ok = decodes
          /\ Done(r) =>
               IF decodes
                 THEN /\ resps[r].status = 200
                      /\ Shows(reqs[r].route, resps[r], reply.body.value)
                 ELSE resps[r].status = 500

\* A reply with status 403 and a JSON body was rendered as a page, and a
\* reply with status 200 and an HTML body was answered 500.
C12_Witness ==
  \E r, q \in Reqs :
    /\ Done(r) /\ Fetched(r)
    /\ CallOf(r).reply.err = None
    /\ CallOf(r).reply.status = 403
    /\ CallOf(r).reply.body.json
    /\ resps[r].status = 200
    /\ Done(q) /\ Fetched(q)
    /\ CallOf(q).reply.err = None
    /\ CallOf(q).reply.status = 200
    /\ ~CallOf(q).reply.body.json
    /\ resps[q].status = 500

====
